---- MODULE Spec2Model ----
(***************************************************************************)
(* Model of the markdown-to-PDF editor: the paginated preview              *)
(* (src/components/Preview.tsx: the frontmatter parser, the image          *)
(* renderer, the pagination pass and its debounced effect, the page        *)
(* decorator), the PDF export (src/utils/pdfUtils.ts) and the AI actions   *)
(* (src/App.tsx, src/services/geminiService.ts).                           *)
(*                                                                         *)
(* Strings are sequences of one-character strings, so that split, trim,    *)
(* toLowerCase, parseFloat and the frontmatter regular expression are      *)
(* computed, not assumed.  The outerHTML of a rendered block is a          *)
(* one-symbol string: the symbol i for the block at position i of the      *)
(* container, the symbol -i for a page-break marker at position i.         *)
(***************************************************************************)
EXTENDS Integers, Sequences, FiniteSets, TLC

VARIABLES
    measureContainer,   \* children of the hidden measuring <div> (measureRef)
    pages,              \* React state `pages`: string[][]
    phase,              \* which step of the run has happened
    observed,           \* history: one earlier pass (its container, its pages)
    markdown,           \* prop `markdown`: the raw document text
    docConfig,          \* React state `docConfig`: key -> value
    content,            \* paginate's `content`: the text handed to the renderer
    view,               \* what the last render derived from docConfig
    today,              \* what `new Date()` answers: year, month (0-11), date
    imageCall,          \* arguments of a call of the image renderer
    imageHtml,          \* what that call returned
    font,               \* prop `font`
    timer,              \* the armed timeouts of the pagination effect
    awaiting,           \* calls of paginate suspended at `await parseResult`
    windowMarked,       \* whether window.marked is there
    measureRefCurrent,  \* whether measureRef.current is there
    changes,            \* how many times the props have changed
    runs,               \* history: the calls of paginate so far
    isEnhancing,        \* App state `isEnhancing`
    aiCall,             \* the AI action awaiting the text-generation service
    isGeneratingPdf,    \* App state `isGeneratingPdf`
    exportTimer,        \* whether the timeout of handleDownload is armed
    saving,             \* whether downloadPDF is suspended at `await ...save()`
    exportingClass,     \* whether the export container has the class exporting-pdf
    windowHtml2pdf,     \* whether window.html2pdf is there
    exportContainer,    \* whether the document has the element pdf-export-container
    alerts,             \* the notices shown with alert(), in order
    exports,            \* how many exports have been asked for
    aiActions,          \* how many AI actions have been asked for
    edits               \* how many edits the user has made

vars == <<measureContainer, pages, phase, observed, markdown, docConfig, content, view,
          today, imageCall, imageHtml, font, timer, awaiting, windowMarked,
          measureRefCurrent, changes, runs, isEnhancing, aiCall, isGeneratingPdf,
          exportTimer, saving, exportingClass, windowHtml2pdf, exportContainer, alerts,
          exports, aiActions, edits>>

paginationVars == <<measureContainer, pages, observed>>
documentVars == <<markdown, docConfig, content, view, today>>
imageVars == <<imageCall, imageHtml>>
effectVars == <<font, timer, awaiting, windowMarked, measureRefCurrent, changes, runs>>
aiVars == <<isEnhancing, aiCall, aiActions, edits>>
exportVars == <<isGeneratingPdf, exportTimer, saving, exportingClass, windowHtml2pdf,
                exportContainer, exports>>
appVars == <<aiVars, exportVars, alerts>>

----------------------------------------------------------------------------
(* Bounds of the model *)

\* longest container (number of top-level children) the pagination pass sees
MaxLen == 3

\* longest container in the runs that repeat a pass on an earlier container
MaxRerunLen == 2

\* most lines of a raw document text handed to the frontmatter parser
MaxLines == 5

\* most lines inside the frontmatter block of a document that is decorated
MaxEntries == 3

\* most '#' characters in an image URL
MaxHashes == 2

\* most lines inside the frontmatter block of a document with a background
MaxBgEntries == 2

\* most changes of the props (document text, font) after the mount
MaxChanges == 2

\* most exports asked for
MaxExports == 3

\* most AI actions asked for
MaxAiActions == 2

\* most edits the user makes in the editor
MaxEdits == 2

----------------------------------------------------------------------------
(* Strings *)

RECURSIVE Concat(_)
\* Array.prototype.join('') of a sequence of strings
Concat(ss) == IF ss = <<>> THEN <<>> ELSE Head(ss) \o Concat(Tail(ss))

RECURSIVE Flatten(_)
\* all elements of a sequence of sequences, in order
Flatten(ss) == IF ss = <<>> THEN <<>> ELSE Head(ss) \o Flatten(Tail(ss))

RECURSIVE IndexFrom(_, _, _)
\* index of the first occurrence of character c in s at or after i, 0 if none
IndexFrom(s, c, i) ==
    IF i > Len(s) THEN 0 ELSE IF s[i] = c THEN i ELSE IndexFrom(s, c, i + 1)

\* String.prototype.indexOf(c) + 1: the first occurrence of c in s, 0 if none
IndexOfChar(s, c) == IndexFrom(s, c, 1)

RECURSIVE Split(_, _)
\* String.prototype.split(c) for a one-character separator
Split(s, c) ==
    LET i == IndexOfChar(s, c)
    IN  IF i = 0 THEN <<s>>
        ELSE <<SubSeq(s, 1, i - 1)>> \o Split(SubSeq(s, i + 1, Len(s)), c)

RECURSIVE Join(_, _)
\* Array.prototype.join(c) for a one-character separator
Join(parts, c) ==
    IF parts = <<>> THEN <<>>
    ELSE IF Len(parts) = 1 THEN parts[1]
    ELSE parts[1] \o <<c>> \o Join(Tail(parts), c)

\* the white space String.prototype.trim removes
IsSpace(c) == c \in {" ", "\t", "\n", "\r"}

RECURSIVE TrimStart(_)
TrimStart(s) == IF s # <<>> /\ IsSpace(Head(s)) THEN TrimStart(Tail(s)) ELSE s

RECURSIVE TrimEnd(_)
TrimEnd(s) ==
    IF s # <<>> /\ IsSpace(s[Len(s)]) THEN TrimEnd(SubSeq(s, 1, Len(s) - 1)) ELSE s

\* String.prototype.trim
Trim(s) == TrimEnd(TrimStart(s))

\* whether pat occurs in text starting at index k
OccursAt(text, pat, k) ==
    /\ k >= 1
    /\ k + Len(pat) - 1 <= Len(text)
    /\ SubSeq(text, k, k + Len(pat) - 1) = pat

\* String.prototype.replace(pat, '') for a string pattern: the first occurrence
\* of pat is removed
RemoveFirst(text, pat) ==
    IF \E k \in 1..(Len(text) + 1) : OccursAt(text, pat, k)
    THEN LET k == CHOOSE k \in 1..(Len(text) + 1) :
                      /\ OccursAt(text, pat, k)
                      /\ \A j \in 1..(k - 1) : ~OccursAt(text, pat, j)
         IN  SubSeq(text, 1, k - 1) \o SubSeq(text, k + Len(pat), Len(text))
    ELSE text

----------------------------------------------------------------------------
(* Frontmatter: Preview.tsx, parseFrontmatter, lines 18-42 *)

\* the regular expression's opening part: ^---\n
FrontmatterOpen == <<"-", "-", "-", "\n">>

\* the regular expression's closing part: \n---\n
FrontmatterClose == <<"\n", "-", "-", "-", "\n">>

\* the places where the closing part can match, after the opening part
ClosePositions(text) ==
    {j \in (Len(FrontmatterOpen) + 1)..Len(text) : OccursAt(text, FrontmatterClose, j)}

\* a greedy group ([\s\S]*): the closing part matches at the last place
MatchCloseGreedy(text) ==
    CHOOSE j \in ClosePositions(text) : \A k \in ClosePositions(text) : k <= j

\* the lazy group ([\s\S]*?): the closing part matches at the first place
MatchClose(text) ==
    CHOOSE j \in ClosePositions(text) : \A k \in ClosePositions(text) : j <= k

\* text.match(regex) is not null
RegexMatches(text) ==
    OccursAt(text, FrontmatterOpen, 1) /\ ClosePositions(text) # {}

\* match[0]: the whole match
MatchAll(text) == SubSeq(text, 1, MatchClose(text) + Len(FrontmatterClose) - 1)

\* match[1]: the captured group
MatchGroup(text) == SubSeq(text, Len(FrontmatterOpen) + 1, MatchClose(text) - 1)

\* const config = {}
EmptyConfig == [k \in {} |-> <<>>]

\* the property name an object literal does not store a string under
ProtoKey == <<"_", "_", "p", "r", "o", "t", "o", "_", "_">>

\* config[key] = value
SetKey(config, key, value) ==
    IF key = ProtoKey THEN config
    ELSE [k \in DOMAIN config \cup {key} |-> IF k = key THEN value ELSE config[k]]

\* the forEach callback with the value cut at the second colon
ConfigLineTwoParts(config, line) ==
    LET parts == Split(line, ":")
    IN  IF Len(parts) >= 2
        THEN SetKey(config, Trim(parts[1]), Trim(parts[2]))
        ELSE config

\* the forEach callback: one line of the frontmatter block
ConfigLine(config, line) ==
    LET parts == Split(line, ":")
    IN  IF Len(parts) >= 2
        THEN SetKey(config, Trim(parts[1]), Trim(Join(Tail(parts), ":")))
        ELSE config

RECURSIVE ConfigLines(_, _)
\* frontmatterBlock.split('\n').forEach(...)
ConfigLines(config, lines) ==
    IF lines = <<>> THEN config
    ELSE ConfigLines(ConfigLine(config, Head(lines)), Tail(lines))

parseFrontmatter(text) ==
    IF RegexMatches(text)
    THEN [config |-> ConfigLines(EmptyConfig, Split(MatchGroup(text), "\n")),
          content |-> RemoveFirst(text, MatchAll(text))]
    ELSE [config |-> EmptyConfig, content |-> text]

----------------------------------------------------------------------------
(* Page decoration: Preview.tsx, lines 204-217 *)

HeaderKey == <<"h", "e", "a", "d", "e", "r">>
DateKey == <<"d", "a", "t", "e">>
FalseLiteral == <<"f", "a", "l", "s", "e">>
TrueLiteral == <<"t", "r", "u", "e">>

\* docConfig[key]: a string, or undefined when the key is absent
Lookup(config, key) ==
    IF key \in DOMAIN config
    THEN [defined |-> TRUE, str |-> config[key]]
    ELSE [defined |-> FALSE, str |-> <<>>]

\* JavaScript truthiness of a string or undefined
Truthy(v) == v.defined /\ v.str # <<>>

\* the header test without the comparison against 'false'
ShowHeaderAnyDate(config) ==
    Truthy(Lookup(config, HeaderKey)) \/ Truthy(Lookup(config, DateKey))

\* showHeader = headerText || (docConfig.date && docConfig.date !== 'false'),
\* as the truth value {showHeader && ...} tests
ShowHeader(config) ==
    \/ Truthy(Lookup(config, HeaderKey))
    \/ (Truthy(Lookup(config, DateKey)) /\ Lookup(config, DateKey).str # FalseLiteral)

----------------------------------------------------------------------------
(* Numbers as text: String(n), padStart, parseFloat.  A parsed number is   *)
(* kept exact: mant * 10^exp with the sign apart, mant without trailing    *)
(* zeros, or the values NaN and Infinity.                                  *)

DigitChars == <<"0", "1", "2", "3", "4", "5", "6", "7", "8", "9">>

IsDigit(c) == \E d \in DOMAIN DigitChars : DigitChars[d] = c

\* the value of a digit character
DigitValue(c) == (CHOOSE d \in DOMAIN DigitChars : DigitChars[d] = c) - 1

RECURSIVE NumberToString(_)
\* String(n) of a non-negative integer: its decimal digits, no padding
NumberToString(n) ==
    IF n < 10 THEN <<DigitChars[n + 1]>>
    ELSE NumberToString(n \div 10) \o <<DigitChars[(n % 10) + 1]>>

RECURSIVE PadStart(_, _, _)
\* String.prototype.padStart(targetLength, padChar)
PadStart(s, targetLength, padChar) ==
    IF Len(s) >= targetLength THEN s ELSE PadStart(<<padChar>> \o s, targetLength, padChar)

RECURSIVE DigitPrefix(_)
\* the longest prefix of s made of decimal digits
DigitPrefix(s) ==
    IF s # <<>> /\ IsDigit(Head(s)) THEN <<Head(s)>> \o DigitPrefix(Tail(s)) ELSE <<>>

RECURSIVE DigitsToNumber(_)
\* the value of a sequence of decimal digits (0 for the empty one)
DigitsToNumber(ds) ==
    IF ds = <<>> THEN 0
    ELSE 10 * DigitsToNumber(SubSeq(ds, 1, Len(ds) - 1)) + DigitValue(ds[Len(ds)])

\* s without its first n characters
Drop(s, n) == SubSeq(s, n + 1, Len(s))

NaN == [kind |-> "NaN", negative |-> FALSE, mant |-> 0, exp |-> 0]

Infinity(negative) == [kind |-> "Infinity", negative |-> negative, mant |-> 0, exp |-> 0]

InfinityLiteral == <<"I", "n", "f", "i", "n", "i", "t", "y">>

RECURSIVE Normalised(_, _, _)
\* the number mant * 10^exp with the trailing zeros of mant moved into exp
Normalised(negative, mant, exp) ==
    IF mant = 0 THEN [kind |-> "number", negative |-> negative, mant |-> 0, exp |-> 0]
    ELSE IF mant % 10 = 0 THEN Normalised(negative, mant \div 10, exp + 1)
    ELSE [kind |-> "number", negative |-> negative, mant |-> mant, exp |-> exp]

\* the number literal 1
One == Normalised(FALSE, 1, 0)

\* the exponent part at the head of s, if there is one: e or E, an optional
\* sign, one digit or more
ExponentPart(s) ==
    IF s # <<>> /\ Head(s) \in {"e", "E"}
    THEN LET afterE == Tail(s)
             signed == afterE # <<>> /\ Head(afterE) \in {"+", "-"}
             digits == DigitPrefix(IF signed THEN Tail(afterE) ELSE afterE)
         IN  IF digits = <<>> THEN 0
             ELSE IF signed /\ Head(afterE) = "-" THEN 0 - DigitsToNumber(digits)
             ELSE DigitsToNumber(digits)
    ELSE 0

\* parseFloat(s): leading white space skipped, then the longest prefix that
\* is a decimal literal (sign, digits, fraction, exponent) or Infinity;
\* NaN when there is none
parseFloat(s) ==
    LET trimmed == TrimStart(s)
        signed == trimmed # <<>> /\ Head(trimmed) \in {"+", "-"}
        negative == signed /\ Head(trimmed) = "-"
        unsigned == IF signed THEN Tail(trimmed) ELSE trimmed
        intDigits == DigitPrefix(unsigned)
        afterInt == Drop(unsigned, Len(intDigits))
        hasPoint == afterInt # <<>> /\ Head(afterInt) = "."
        fracDigits == IF hasPoint THEN DigitPrefix(Tail(afterInt)) ELSE <<>>
        afterMant == IF hasPoint THEN Drop(afterInt, 1 + Len(fracDigits)) ELSE afterInt
    IN  IF OccursAt(unsigned, InfinityLiteral, 1) THEN Infinity(negative)
        ELSE IF intDigits = <<>> /\ fracDigits = <<>> THEN NaN
        ELSE Normalised(negative, DigitsToNumber(intDigits \o fracDigits),
                        ExponentPart(afterMant) - Len(fracDigits))

----------------------------------------------------------------------------
(* Date and background: Preview.tsx, lines 192-217 *)

BgImageKey == <<"b", "g", "-", "i", "m", "a", "g", "e">>
BgOpacityKey == <<"b", "g", "-", "o", "p", "a", "c", "i", "t", "y">>
BgRotateKey == <<"b", "g", "-", "r", "o", "t", "a", "t", "e">>
BgFitKey == <<"b", "g", "-", "f", "i", "t">>
StretchLiteral == <<"s", "t", "r", "e", "t", "c", "h">>
ContainLiteral == <<"c", "o", "n", "t", "a", "i", "n">>
CoverLiteral == <<"c", "o", "v", "e", "r">>
FullSizeLiteral == <<"1", "0", "0", "%", " ", "1", "0", "0", "%">>
DegLiteral == <<"d", "e", "g">>
ZeroLiteral == <<"0">>

\* the date formatted with getMonth() taken for the calendar month
FormatDateMonthFromZero(d) ==
    LET year == NumberToString(d.year)
        month == PadStart(NumberToString(d.month), 2, "0")
        day == PadStart(NumberToString(d.date), 2, "0")
    IN  year \o <<"-">> \o month \o <<"-">> \o day

\* `${year}-${month}-${day}` of the date d
FormatDate(d) ==
    LET year == NumberToString(d.year)
        month == PadStart(NumberToString(d.month + 1), 2, "0")
        day == PadStart(NumberToString(d.date), 2, "0")
    IN  year \o <<"-">> \o month \o <<"-">> \o day

\* getDisplayDate(): null, or the date text
getDisplayDate(config, d) ==
    LET date == Lookup(config, DateKey)
    IN  IF date.defined /\ date.str = FalseLiteral THEN [defined |-> FALSE, str |-> <<>>]
        ELSE IF Truthy(date) /\ date.str # TrueLiteral THEN [defined |-> TRUE, str |-> date.str]
        ELSE [defined |-> TRUE, str |-> FormatDate(d)]

\* bgOpacity = docConfig['bg-opacity'] ? parseFloat(docConfig['bg-opacity']) : 1
BgOpacity(config) ==
    LET opacity == Lookup(config, BgOpacityKey)
    IN  IF Truthy(opacity) THEN parseFloat(opacity.str) ELSE One

\* bgRotate = docConfig['bg-rotate'] || '0'
BgRotate(config) ==
    LET rotate == Lookup(config, BgRotateKey)
    IN  IF Truthy(rotate) THEN rotate.str ELSE ZeroLiteral

\* String.prototype.includes
Includes(s, sub) == \E i \in 1..Len(s) + 1 : OccursAt(s, sub, i)

\* the rotation with the degrees suffix appended whatever the value
RotationValAlwaysAppended(bgRotate) == bgRotate \o DegLiteral

\* rotationVal = bgRotate.includes('deg') ? bgRotate : `${bgRotate}deg`
RotationVal(bgRotate) ==
    IF Includes(bgRotate, DegLiteral) THEN bgRotate ELSE bgRotate \o DegLiteral

\* bgSize
BgSize(config) ==
    LET fit == Lookup(config, BgFitKey)
    IN  IF fit.defined /\ fit.str = StretchLiteral THEN FullSizeLiteral
        ELSE IF fit.defined /\ fit.str = ContainLiteral THEN ContainLiteral
        ELSE CoverLiteral

\* what a render derives from docConfig
Decorate(config) ==
    [showHeader |-> ShowHeader(config),
     dateText |-> getDisplayDate(config, today),
     bgImage |-> Lookup(config, BgImageKey),
     bgOpacity |-> BgOpacity(config),
     bgSize |-> BgSize(config),
     rotationVal |-> RotationVal(BgRotate(config))]

----------------------------------------------------------------------------
(* Image renderer: Preview.tsx, image, lines 59-90 *)

DirectiveLeft == <<"l", "e", "f", "t">>
DirectiveRight == <<"r", "i", "g", "h", "t">>
DirectiveCenter == <<"c", "e", "n", "t", "e", "r">>
DirectiveFull == <<"f", "u", "l", "l">>
DirectiveFloatLeft == <<"f", "l", "o", "a", "t", "-", "l", "e", "f", "t">>
DirectiveFloatRight == <<"f", "l", "o", "a", "t", "-", "r", "i", "g", "h", "t">>
DirectiveHalf == <<"h", "a", "l", "f">>
DirectiveThird == <<"t", "h", "i", "r", "d">>

UpperLetters ==
    <<"A", "B", "C", "D", "E", "F", "G", "H", "I", "J", "K", "L", "M",
      "N", "O", "P", "Q", "R", "S", "T", "U", "V", "W", "X", "Y", "Z">>

LowerLetters ==
    <<"a", "b", "c", "d", "e", "f", "g", "h", "i", "j", "k", "l", "m",
      "n", "o", "p", "q", "r", "s", "t", "u", "v", "w", "x", "y", "z">>

\* String.prototype.toLowerCase, one character
LowerChar(c) ==
    IF \E i \in 1..Len(UpperLetters) : UpperLetters[i] = c
    THEN LowerLetters[CHOOSE i \in 1..Len(UpperLetters) : UpperLetters[i] = c]
    ELSE c

\* String.prototype.toLowerCase
ToLowerCase(str) == [i \in 1..Len(str) |-> LowerChar(str[i])]

\* the if / else-if chain from hash to className ('' when none applies)
ClassName(hash) ==
    CASE hash = DirectiveLeft -> "align-left"
      [] hash = DirectiveRight -> "align-right"
      [] hash = DirectiveCenter -> "align-center"
      [] hash = DirectiveFull -> "align-full"
      [] hash = DirectiveFloatLeft -> "float-left"
      [] hash = DirectiveFloatRight -> "float-right"
      [] hash = DirectiveHalf -> "width-half"
      [] hash = DirectiveThird -> "width-third"
      [] OTHER -> ""

\* the normalised arguments: href, imgTitle, imgText
ImageArgs(call) ==
    IF call.tokenOrHref.type = "object"
    THEN [href |-> call.tokenOrHref.href,
          imgTitle |-> call.tokenOrHref.title,
          imgText |-> call.tokenOrHref.text]
    ELSE [href |-> [type |-> call.tokenOrHref.type, str |-> call.tokenOrHref.str],
          imgTitle |-> call.title,
          imgText |-> call.text]

\* the hash compared as written, without toLowerCase
ImageHashAsWritten(href) ==
    LET parts == Split(href, "#")
    IN  IF Len(parts) >= 2 /\ parts[2] # <<>> THEN parts[2] ELSE <<>>

\* const [url, rawHash] = href.split('#'); hash = rawHash ? rawHash.toLowerCase() : ''
ImageHash(href) ==
    LET parts == Split(href, "#")
    IN  IF Len(parts) >= 2 /\ parts[2] # <<>> THEN ToLowerCase(parts[2]) ELSE <<>>

\* const [url, rawHash] = href.split('#')
ImageUrl(href) == Split(href, "#")[1]

\* return '' when href is not a string
NoElement == [element |-> FALSE, src |-> <<>>, title |-> <<>>, alt |-> <<>>, class |-> ""]

\* the returned <img>: its src, and the title, alt and class attributes, each
\* empty when the attribute is left out
image(call) ==
    LET args == ImageArgs(call)
    IN  IF args.href.type # "string" THEN NoElement
        ELSE [element |-> TRUE,
              src |-> ImageUrl(args.href.str),
              title |-> args.imgTitle,
              alt |-> args.imgText,
              class |-> ClassName(ImageHash(args.href.str))]

----------------------------------------------------------------------------
(* Pagination: Preview.tsx, paginate, lines 98-169 *)

MAX_PAGE_HEIGHT == 1000

\* heights a rendered block can measure: empty, small, filling, oversized
BlockHeights == {0, 400, 600, 1001}

\* what one top-level child of the container can be
ChildKinds ==
    {[cls |-> "page-break", offsetHeight |-> 1]}
        \cup {[cls |-> "", offsetHeight |-> h] : h \in BlockHeights}

\* the child at position i of the container: class list, measured height, markup
Child(i, k) ==
    [cls |-> k.cls,
     offsetHeight |-> k.offsetHeight,
     outerHTML |-> IF k.cls = "page-break" THEN <<0 - i>> ELSE <<i>>]

\* the containers of at most max children the renderer and the layout engine
\* can produce
ContainersUpTo(max) ==
    UNION {{[i \in 1..n |-> Child(i, ks[i])] : ks \in [1..n -> ChildKinds]} : n \in 0..max}

\* the locals of a pass started from the page list of the pass before
InitLocalsStale == [newPages |-> pages, currentPage |-> <<>>, currentHeight |-> 0]

\* const newPages = []; let currentPage = []; let currentHeight = 0;
InitLocals == [newPages |-> <<>>, currentPage |-> <<>>, currentHeight |-> 0]

\* child.classList.contains('page-break')
IsPageBreak(child) == child.cls = "page-break"

\* a page break that closes the page even when it is empty
BreakStepAlways(st) ==
    [newPages |-> Append(st.newPages, st.currentPage),
     currentPage |-> <<>>,
     currentHeight |-> 0]

\* the branch taken for an explicit page break
BreakStep(st) ==
    IF Len(st.currentPage) > 0
    THEN [newPages |-> Append(st.newPages, st.currentPage),
          currentPage |-> <<>>,
          currentHeight |-> 0]
    ELSE st

\* the overflow test with the page's emptiness read off its height
OverflowsByHeight(st, childHeight) ==
    st.currentHeight + childHeight > MAX_PAGE_HEIGHT /\ st.currentHeight > 0

\* the overflow test with >= for >
OverflowsAtLimit(st, childHeight) ==
    st.currentHeight + childHeight >= MAX_PAGE_HEIGHT /\ Len(st.currentPage) > 0

\* currentHeight + childHeight > MAX_PAGE_HEIGHT && currentPage.length > 0
Overflows(st, childHeight) ==
    st.currentHeight + childHeight > MAX_PAGE_HEIGHT /\ Len(st.currentPage) > 0

\* the content branch with the new page's height started at 0
BlockStepZeroHeight(st, child) ==
    LET childHeight == child.offsetHeight
        childHtml == child.outerHTML
    IN  IF Overflows(st, childHeight)
        THEN [newPages |-> Append(st.newPages, st.currentPage),
              currentPage |-> <<childHtml>>,
              currentHeight |-> 0]
        ELSE [newPages |-> st.newPages,
              currentPage |-> Append(st.currentPage, childHtml),
              currentHeight |-> st.currentHeight + childHeight]

\* the branch taken for a content block
BlockStep(st, child) ==
    LET childHeight == child.offsetHeight
        childHtml == child.outerHTML
    IN  IF Overflows(st, childHeight)
        THEN [newPages |-> Append(st.newPages, st.currentPage),
              currentPage |-> <<childHtml>>,
              currentHeight |-> childHeight]
        ELSE [newPages |-> st.newPages,
              currentPage |-> Append(st.currentPage, childHtml),
              currentHeight |-> st.currentHeight + childHeight]

\* the loop body without the `continue` of the page-break branch
LoopBodyFallThrough(st, child) ==
    IF IsPageBreak(child) THEN BlockStep(BreakStep(st), child) ELSE BlockStep(st, child)

\* one iteration of the for loop
LoopBody(st, child) ==
    IF IsPageBreak(child) THEN BreakStep(st) ELSE BlockStep(st, child)

RECURSIVE Loop(_, _, _)
\* for (let i = 0; i < children.length; i++), from iteration i on
Loop(children, i, st) ==
    IF i > Len(children) THEN st ELSE Loop(children, i + 1, LoopBody(st, children[i]))

\* push the last page; if there is no page at all, push ['']
Finish(st) ==
    LET closed == IF Len(st.currentPage) > 0
                  THEN Append(st.newPages, st.currentPage)
                  ELSE st.newPages
    IN  IF Len(closed) = 0 THEN << << <<>> >> >> ELSE closed

\* the page list a pass computes from the container's children
paginate(children) == Finish(Loop(children, 1, InitLocals))

----------------------------------------------------------------------------
(* The pagination pass as an operation of the component *)

\* no earlier pass is remembered
NoPass == [taken |-> FALSE]

\* the component as mounted, before any effect has run
Mounted ==
    /\ measureContainer = <<>>
    /\ pages = <<>>
    /\ observed = NoPass
    /\ docConfig = EmptyConfig
    /\ content = <<>>
    /\ view = Decorate(EmptyConfig)

\* the days `new Date()` falls on: months and days of one and of two digits
Dates ==
    {[year |-> 2026, month |-> m, date |-> d] : m \in {0, 8, 9, 11}, d \in {4, 31}}

\* a clock that stands still
FixedDay == today = [year |-> 2026, month |-> 10, date |-> 4]

\* no call of paginate so far
NoRuns ==
    [count |-> 0,
     last |-> [taken |-> FALSE, markdown |-> <<>>, font |-> ""],
     started |-> [taken |-> FALSE, markdown |-> <<>>]]

\* the pagination effect left aside: no timer, nothing suspended
NoEffect ==
    /\ font = "Inter"
    /\ timer = {}
    /\ awaiting = <<>>
    /\ windowMarked = TRUE
    /\ measureRefCurrent = TRUE
    /\ changes = 0
    /\ runs = NoRuns

\* no AI action awaits the service
NoCall == [pending |-> FALSE, action |-> "", text |-> <<>>]

\* the App with nothing going on: no AI action, no export
AppIdle ==
    /\ isEnhancing = FALSE
    /\ aiCall = NoCall
    /\ isGeneratingPdf = FALSE
    /\ exportTimer = FALSE
    /\ saving = FALSE
    /\ exportingClass = FALSE
    /\ windowHtml2pdf = TRUE
    /\ exportContainer = TRUE
    /\ alerts = <<>>
    /\ exports = 0
    /\ aiActions = 0
    /\ edits = 0

\* no image has been rendered
NoImage ==
    /\ imageCall = [tokenOrHref |-> [type |-> "string", str |-> <<>>,
                                     href |-> [type |-> "undefined", str |-> <<>>],
                                     title |-> <<>>, text |-> <<>>],
                    title |-> <<>>, text |-> <<>>]
    /\ imageHtml = NoElement

Init ==
    /\ FixedDay
    /\ Mounted
    /\ AppIdle
    /\ NoEffect
    /\ NoImage
    /\ markdown = <<>>
    /\ phase = "mounted"

\* one pass over the rendered container c:
\* measureContainer.innerHTML = fullHtml; ...; setPages(newPages)
Pass(c) ==
    /\ measureContainer' = c
    /\ pages' = paginate(c)
    /\ phase' = "paginated"

RunPaginate ==
    \E c \in ContainersUpTo(MaxLen) :
        /\ Pass(c) /\ UNCHANGED observed /\ UNCHANGED documentVars /\ UNCHANGED imageVars
        /\ UNCHANGED effectVars
        /\ UNCHANGED appVars

Next == RunPaginate

Spec == Init /\ [][Next]_vars

----------------------------------------------------------------------------
(* Passes repeated on an earlier container.  `observed` remembers one pass *)
(* and what has run since: "none", "other" (a pass on another container),  *)
(* "rerun" (after that, a pass on the remembered container again).         *)

\* a pass that is remembered, whatever the pass before left behind
ObservedPass ==
    \E c \in ContainersUpTo(MaxRerunLen) :
        /\ ~observed.taken
        /\ Pass(c)
        /\ observed' = [taken |-> TRUE, input |-> c, pages |-> pages', since |-> "none"]
        /\ UNCHANGED documentVars
        /\ UNCHANGED imageVars
        /\ UNCHANGED appVars
        /\ UNCHANGED effectVars

\* a pass before the remembered one
EarlierPass ==
    \E c \in ContainersUpTo(MaxRerunLen) :
        /\ ~observed.taken
        /\ Pass(c)
        /\ UNCHANGED observed
        /\ UNCHANGED documentVars
        /\ UNCHANGED imageVars
        /\ UNCHANGED appVars
        /\ UNCHANGED effectVars

\* a pass after the remembered one
LaterPass ==
    \E c \in ContainersUpTo(MaxRerunLen) :
        /\ observed.taken
        /\ Pass(c)
        /\ observed' =
               [observed EXCEPT !.since =
                   IF c # observed.input THEN "other"
                   ELSE IF observed.since = "none" THEN "none" ELSE "rerun"]
        /\ UNCHANGED documentVars
        /\ UNCHANGED imageVars
        /\ UNCHANGED appVars
        /\ UNCHANGED effectVars

RerunNext == ObservedPass \/ EarlierPass \/ LaterPass

SpecRerun == Init /\ [][RerunNext]_vars

----------------------------------------------------------------------------
(* The frontmatter parser and the decorator applied to a document text *)

DelimLine == <<"-", "-", "-">>

\* the lines a raw document text is made of
TextLines ==
    { DelimLine,
      <<>>,
      <<"-", "-", "-", "-">>,
      <<"k", ":", " ", "v", ":", "w", " ">>,
      <<"k", ":">>,
      <<" ", "j", " ", ":", "v">>,
      ProtoKey \o <<":", "x">> }

\* the raw document texts of at most max lines
TextsUpTo(max) ==
    {Join(ls, "\n") : ls \in UNION {[1..n -> TextLines] : n \in 0..max}}

\* the lines a decorated document's frontmatter block is made of
EntryLines ==
    { HeaderKey \o <<":", " ", "h">>,
      HeaderKey \o <<":">>,
      DateKey \o <<":">> \o FalseLiteral,
      DateKey \o <<":">>,
      DateKey \o <<":", "d">>,
      DateKey \o <<":">> \o TrueLiteral,
      <<"k", ":", "v">> }

\* the document texts that open with a frontmatter block of at most max lines,
\* and the text without one
DecoratedTextsUpTo(max) ==
    {<<"b">>} \cup
    {FrontmatterOpen \o Join(ls, "\n") \o FrontmatterClose \o <<"b">> :
        ls \in UNION {[1..n -> EntryLines] : n \in 1..max}}

FrontmatterInit ==
    /\ FixedDay
    /\ Mounted
    /\ AppIdle
    /\ NoEffect
    /\ NoImage
    /\ markdown \in TextsUpTo(MaxLines)
    /\ phase = "edited"

DecorateInit ==
    /\ today \in Dates
    /\ Mounted
    /\ AppIdle
    /\ NoEffect
    /\ NoImage
    /\ markdown \in DecoratedTextsUpTo(MaxEntries)
    /\ phase = "edited"

\* const { config, content } = parseFrontmatter(markdown); setDocConfig(config)
ParseMarkdown ==
    /\ phase = "edited"
    /\ LET parsed == parseFrontmatter(markdown)
       IN  docConfig' = parsed.config /\ content' = parsed.content
    /\ phase' = "parsed"
    /\ UNCHANGED <<markdown, view, today>>
    /\ UNCHANGED paginationVars
    /\ UNCHANGED imageVars
    /\ UNCHANGED appVars
    /\ UNCHANGED effectVars

\* the render that follows setDocConfig
Render ==
    /\ phase = "parsed"
    /\ view' = Decorate(docConfig)
    /\ phase' = "rendered"
    /\ UNCHANGED <<markdown, docConfig, content, today>>
    /\ UNCHANGED paginationVars
    /\ UNCHANGED imageVars
    /\ UNCHANGED appVars
    /\ UNCHANGED effectVars

DocumentNext == ParseMarkdown \/ Render

SpecFrontmatter == FrontmatterInit /\ [][DocumentNext]_vars

SpecDecorate == DecorateInit /\ [][DocumentNext]_vars

\* the lines the frontmatter block of a document with a background is made of
BackgroundLines ==
    { BgImageKey \o <<":", "u">>,
      BgFitKey \o <<":">> \o StretchLiteral,
      BgFitKey \o <<":">> \o ContainLiteral,
      BgOpacityKey \o <<":", "0", ".", "5">>,
      BgOpacityKey \o <<":", " ", "-", ".", "2", "5", "e", "1", "x">>,
      BgOpacityKey \o <<":", "a", "b", "c">>,
      BgOpacityKey \o <<":">>,
      BgRotateKey \o <<":", "4", "5">>,
      BgRotateKey \o <<":", "4", "5", "d", "e", "g">>,
      BgRotateKey \o <<":", "1", "r", "a", "d">>,
      BgRotateKey \o <<":", "1", "t", "u", "r", "n">>,
      BgRotateKey \o <<":", "5", "g", "r", "a", "d">>,
      BgRotateKey \o <<":", "d", "e", "g", "s">>,
      BgRotateKey \o <<":">> }

\* the document texts that open with a frontmatter block of at most max such
\* lines, and the text without one
BackgroundTextsUpTo(max) ==
    {<<"b">>} \cup
    {FrontmatterOpen \o Join(ls, "\n") \o FrontmatterClose \o <<"b">> :
        ls \in UNION {[1..n -> BackgroundLines] : n \in 1..max}}

BackgroundInit ==
    /\ FixedDay
    /\ Mounted
    /\ AppIdle
    /\ NoEffect
    /\ NoImage
    /\ markdown \in BackgroundTextsUpTo(MaxBgEntries)
    /\ phase = "edited"

SpecBackground == BackgroundInit /\ [][DocumentNext]_vars

----------------------------------------------------------------------------
(* The image renderer applied to one image reference *)

\* what can stand after a '#' of an image URL
HashSegments ==
    { <<"l", "e", "f", "t">>,
      <<"L", "e", "f", "t">>,
      <<"r", "i", "g", "h", "t">>,
      <<"c", "e", "n", "t", "e", "r">>,
      <<"f", "u", "l", "l">>,
      <<"f", "l", "o", "a", "t", "-", "l", "e", "f", "t">>,
      <<"f", "l", "o", "a", "t", "-", "r", "i", "g", "h", "t">>,
      <<"H", "A", "L", "F">>,
      <<"t", "h", "i", "r", "d">>,
      <<>>,
      <<"l", "e", "f">>,
      <<"x">> }

\* the image URLs: a file name, then at most max '#'-led segments
HrefsUpTo(max) ==
    {<<"a">> \o Concat([i \in DOMAIN hs |-> <<"#">> \o hs[i]]) :
        hs \in UNION {[1..n -> HashSegments] : n \in 0..max}}

\* a title or an alt text: none, or one
OptionalTexts == {<<>>, <<"t">>}

\* the first argument's href when it is a token: a string or not
TokenHrefs(hrefs) ==
    {[type |-> "string", str |-> h] : h \in hrefs} \cup {[type |-> "undefined", str |-> <<>>]}

\* calls image(href, title, text) and image(token), and a call whose first
\* argument is neither
ImageCalls(hrefs) ==
    {[tokenOrHref |-> [type |-> "string", str |-> h,
                       href |-> [type |-> "undefined", str |-> <<>>],
                       title |-> <<>>, text |-> <<>>],
      title |-> ti, text |-> te] : h \in hrefs, ti \in OptionalTexts, te \in OptionalTexts}
    \cup
    {[tokenOrHref |-> [type |-> "object", str |-> <<>>,
                       href |-> th, title |-> ti, text |-> te],
      title |-> <<>>, text |-> <<>>] :
          th \in TokenHrefs(hrefs), ti \in OptionalTexts, te \in OptionalTexts}
    \cup
    {[tokenOrHref |-> [type |-> "number", str |-> <<>>,
                       href |-> [type |-> "undefined", str |-> <<>>],
                       title |-> <<>>, text |-> <<>>],
      title |-> <<>>, text |-> <<>>]}

ImageInit ==
    /\ FixedDay
    /\ Mounted
    /\ AppIdle
    /\ NoEffect
    /\ markdown = <<>>
    /\ imageCall \in ImageCalls(HrefsUpTo(MaxHashes))
    /\ imageHtml = NoElement
    /\ phase = "image found"

\* the markdown renderer calls the image renderer
RenderImage ==
    /\ phase = "image found"
    /\ imageHtml' = image(imageCall)
    /\ phase' = "image rendered"
    /\ UNCHANGED imageCall
    /\ UNCHANGED paginationVars
    /\ UNCHANGED documentVars
    /\ UNCHANGED effectVars
    /\ UNCHANGED appVars

ImageNext == RenderImage

SpecImage == ImageInit /\ [][ImageNext]_vars

----------------------------------------------------------------------------
(* The pagination effect: Preview.tsx, lines 97-175.  Every change of the  *)
(* props runs the cleanup of the effect before (clearTimeout) and arms a   *)
(* timeout on a paginate that closes over the new text.  A call of         *)
(* paginate whose renderer answers with a promise is suspended at the      *)
(* await and goes on when the promise settles.                             *)

\* the fonts of the font menu that are drawn
Fonts == {"Inter", "Merriweather"}

\* the document texts the editor holds: the body a b without frontmatter, the
\* body b, a page break, a under a header, and an empty body with date:false
EffectTexts ==
    { <<"a", "b">>,
      FrontmatterOpen \o HeaderKey \o <<":", "h">> \o FrontmatterClose \o <<"b", "|", "a">>,
      FrontmatterOpen \o DateKey \o <<":">> \o FalseLiteral \o FrontmatterClose }

\* parseFrontmatter on each of these texts, computed once
ParsedTexts == [text \in EffectTexts |-> parseFrontmatter(text)]

\* window.marked.parse(content) and the layout of its answer in the measuring
\* container: every character of the content is one top-level element, "|" a
\* page-break marker, "b" a tall block, any other character a short block;
\* the blocks are taller in the serif font
Measured(html, f) ==
    [i \in 1..Len(html) |->
        Child(i, IF html[i] = "|" THEN [cls |-> "page-break", offsetHeight |-> 1]
                 ELSE IF html[i] = "b"
                      THEN [cls |-> "", offsetHeight |-> IF f = "Inter" THEN 600 ELSE 1001]
                 ELSE [cls |-> "", offsetHeight |-> IF f = "Inter" THEN 400 ELSE 600])]

\* the closure of a paginate: the document text of the render it was made in
Closure(text) == [markdown |-> text]

\* the timers after the effect ran again without the cleanup of the one before
RearmedWithoutCleanup(text) == timer \cup {Closure(text)}

\* return () => clearTimeout(timer), then setTimeout(paginate, 100)
Rearmed(text) == {Closure(text)}

\* a pass that comes back only for the newest of the suspended calls
ResumedIfNewest(i) ==
    /\ awaiting' = SubSeq(awaiting, 1, i - 1) \o SubSeq(awaiting, i + 1, Len(awaiting))
    /\ IF i = Len(awaiting)
       THEN Pass(Measured(awaiting[i].content, font))
       ELSE UNCHANGED <<measureContainer, pages>> /\ phase' = "paginated"

\* the suspended call i goes on after the await: lines 109-168
Resumed(i) ==
    /\ awaiting' = SubSeq(awaiting, 1, i - 1) \o SubSeq(awaiting, i + 1, Len(awaiting))
    /\ Pass(Measured(awaiting[i].content, font))

\* the guard of paginate placed after setDocConfig
EarlyReturnAfterConfig(text) ==
    /\ docConfig' = ParsedTexts[text].config
    /\ view' = Decorate(docConfig')
    /\ UNCHANGED <<content, measureContainer, pages, awaiting>>

\* if (!window.marked || !measureRef.current) return;
EarlyReturn(text) ==
    UNCHANGED <<docConfig, view, content, measureContainer, pages, awaiting>>

\* the call of paginate is counted
Called(text, passedGuard) ==
    runs' = [count |-> runs.count + 1,
             last |-> [taken |-> TRUE, markdown |-> text, font |-> font],
             started |-> IF passedGuard THEN [taken |-> TRUE, markdown |-> text]
                         ELSE runs.started]

EffectInit ==
    /\ FixedDay
    /\ Mounted
    /\ AppIdle
    /\ NoImage
    /\ markdown \in EffectTexts
    /\ font \in Fonts
    /\ timer = {Closure(markdown)}
    /\ awaiting = <<>>
    /\ windowMarked \in BOOLEAN
    /\ measureRefCurrent \in BOOLEAN
    /\ changes = 0
    /\ runs = NoRuns
    /\ phase = "mounted"

\* the editor or the font menu changes a prop: the component renders again,
\* the cleanup of the last effect runs, the effect runs
PropsChange ==
    \E text \in EffectTexts, f \in Fonts :
        /\ changes < MaxChanges
        /\ <<text, f>> # <<markdown, font>>
        /\ markdown' = text
        /\ font' = f
        /\ timer' = Rearmed(text)
        /\ changes' = changes + 1
        /\ phase' = "changed"
        /\ UNCHANGED <<docConfig, content, view, today>>
        /\ UNCHANGED paginationVars
        /\ UNCHANGED imageVars
        /\ UNCHANGED appVars
        /\ UNCHANGED <<awaiting, windowMarked, measureRefCurrent, runs>>

\* a timeout fires and paginate returns at its guard
TimerFiresSkipped ==
    \E t \in timer :
        /\ ~windowMarked \/ ~measureRefCurrent
        /\ timer' = timer \ {t}
        /\ EarlyReturn(t.markdown)
        /\ Called(t.markdown, FALSE)
        /\ phase' = "skipped"
        /\ UNCHANGED <<markdown, today, observed>>
        /\ UNCHANGED imageVars
        /\ UNCHANGED appVars
        /\ UNCHANGED <<font, windowMarked, measureRefCurrent, changes>>

\* a timeout fires and the renderer answers at once: paginate runs to its end
TimerFiresSync ==
    \E t \in timer :
        /\ windowMarked /\ measureRefCurrent
        /\ timer' = timer \ {t}
        /\ LET parsed == ParsedTexts[t.markdown]
           IN  /\ docConfig' = parsed.config
               /\ content' = parsed.content
               /\ Pass(Measured(parsed.content, font))
        /\ view' = Decorate(docConfig')
        /\ Called(t.markdown, TRUE)
        /\ UNCHANGED <<markdown, today, observed>>
        /\ UNCHANGED imageVars
        /\ UNCHANGED appVars
        /\ UNCHANGED <<font, awaiting, windowMarked, measureRefCurrent, changes>>

\* a timeout fires and the renderer answers with a promise: paginate runs up
\* to the await
TimerFiresAsync ==
    \E t \in timer :
        /\ windowMarked /\ measureRefCurrent
        /\ timer' = timer \ {t}
        /\ LET parsed == ParsedTexts[t.markdown]
           IN  /\ docConfig' = parsed.config
               /\ content' = parsed.content
               /\ awaiting' = Append(awaiting, [markdown |-> t.markdown,
                                                content |-> parsed.content])
        /\ view' = Decorate(docConfig')
        /\ Called(t.markdown, TRUE)
        /\ phase' = "awaiting"
        /\ UNCHANGED <<markdown, today>>
        /\ UNCHANGED paginationVars
        /\ UNCHANGED imageVars
        /\ UNCHANGED appVars
        /\ UNCHANGED <<font, windowMarked, measureRefCurrent, changes>>

\* the promise of a suspended call settles, in whatever order
RendererAnswers ==
    \E i \in DOMAIN awaiting :
        /\ Resumed(i)
        /\ UNCHANGED <<markdown, docConfig, content, view, today, observed>>
        /\ UNCHANGED imageVars
        /\ UNCHANGED appVars
        /\ UNCHANGED <<font, timer, windowMarked, measureRefCurrent, changes, runs>>

\* the script of the renderer has loaded
MarkedLoads ==
    /\ ~windowMarked
    /\ windowMarked' = TRUE
    /\ phase' = "loaded"
    /\ UNCHANGED documentVars
    /\ UNCHANGED paginationVars
    /\ UNCHANGED imageVars
    /\ UNCHANGED appVars
    /\ UNCHANGED <<font, timer, awaiting, measureRefCurrent, changes, runs>>

\* the measuring container is attached to the ref
MeasureRefAttached ==
    /\ ~measureRefCurrent
    /\ measureRefCurrent' = TRUE
    /\ phase' = "attached"
    /\ UNCHANGED documentVars
    /\ UNCHANGED paginationVars
    /\ UNCHANGED imageVars
    /\ UNCHANGED appVars
    /\ UNCHANGED <<font, timer, awaiting, windowMarked, changes, runs>>

EffectNext ==
    \/ PropsChange
    \/ TimerFiresSkipped
    \/ TimerFiresSync
    \/ TimerFiresAsync
    \/ RendererAnswers
    \/ MarkedLoads
    \/ MeasureRefAttached

SpecEffect == EffectInit /\ [][EffectNext]_vars

\* an armed timeout fires: setTimeout calls paginate once its delay is over
TimerFires == TimerFiresSkipped \/ TimerFiresSync \/ TimerFiresAsync

SpecEffectFair == SpecEffect /\ WF_vars(TimerFires)

----------------------------------------------------------------------------
(* The PDF export: App.tsx, handleDownload, lines 102-109, and             *)
(* pdfUtils.ts, downloadPDF, lines 3-52.                                   *)

LibraryNotLoadedNotice == "PDF library not loaded. Please refresh the page."
ExportFailedNotice == "Failed to generate PDF. See console for details."

\* the class left on the container when downloadPDF is done
ExportingClassKept == exportingClass' = exportingClass

\* element.classList.remove('exporting-pdf')
ExportingClassRemoved == exportingClass' = FALSE

\* what an export leaves alone: the document, the preview, the AI action
ExportFrame ==
    /\ UNCHANGED <<markdown, docConfig, content, view, today>>
    /\ UNCHANGED paginationVars
    /\ UNCHANGED imageVars
    /\ UNCHANGED effectVars
    /\ UNCHANGED aiVars

\* the callback of the timeout after `await downloadPDF(...)`
DownloadDone ==
    /\ isGeneratingPdf' = FALSE
    /\ saving' = FALSE

ExportInit ==
    /\ FixedDay
    /\ Mounted
    /\ NoEffect
    /\ NoImage
    /\ markdown = <<>>
    /\ phase = "mounted"
    /\ isEnhancing = FALSE
    /\ aiCall = NoCall
    /\ aiActions = 0
    /\ edits = 0
    /\ alerts = <<>>
    /\ isGeneratingPdf = FALSE
    /\ exportTimer = FALSE
    /\ saving = FALSE
    /\ exportingClass = FALSE
    /\ windowHtml2pdf \in BOOLEAN
    /\ exportContainer \in BOOLEAN
    /\ exports = 0

\* handleDownload: the Export button (disabled while isGeneratingPdf) is clicked
HandleDownload ==
    /\ ~isGeneratingPdf
    /\ exports < MaxExports
    /\ isGeneratingPdf' = TRUE
    /\ exportTimer' = TRUE
    /\ exports' = exports + 1
    /\ phase' = "export asked"
    /\ UNCHANGED <<saving, exportingClass, windowHtml2pdf, exportContainer, alerts>>
    /\ ExportFrame

\* the timeout fires, downloadPDF finds no container and returns
DownloadWithoutContainer ==
    /\ exportTimer
    /\ ~exportContainer
    /\ exportTimer' = FALSE
    /\ DownloadDone
    /\ phase' = "export: no container"
    /\ UNCHANGED <<exportingClass, windowHtml2pdf, exportContainer, alerts, exports>>
    /\ ExportFrame

\* the timeout fires, downloadPDF finds no export library
DownloadWithoutLibrary ==
    /\ exportTimer
    /\ exportContainer
    /\ ~windowHtml2pdf
    /\ exportTimer' = FALSE
    /\ alerts' = Append(alerts, LibraryNotLoadedNotice)
    /\ ExportingClassRemoved
    /\ DownloadDone
    /\ phase' = "export: no library"
    /\ UNCHANGED <<windowHtml2pdf, exportContainer, exports>>
    /\ ExportFrame

\* the timeout fires, downloadPDF adds the class and awaits the exporter
DownloadStarts ==
    /\ exportTimer
    /\ exportContainer
    /\ windowHtml2pdf
    /\ exportTimer' = FALSE
    /\ exportingClass' = TRUE
    /\ saving' = TRUE
    /\ phase' = "export: saving"
    /\ UNCHANGED <<isGeneratingPdf, windowHtml2pdf, exportContainer, alerts, exports>>
    /\ ExportFrame

\* the timeout fires and the exporter throws before there is anything to await
DownloadThrowsAtOnce ==
    /\ exportTimer
    /\ exportContainer
    /\ windowHtml2pdf
    /\ exportTimer' = FALSE
    /\ alerts' = Append(alerts, ExportFailedNotice)
    /\ ExportingClassRemoved
    /\ DownloadDone
    /\ phase' = "export: threw at once"
    /\ UNCHANGED <<windowHtml2pdf, exportContainer, exports>>
    /\ ExportFrame

\* the exporter has saved the file
SaveResolves ==
    /\ saving
    /\ ExportingClassRemoved
    /\ DownloadDone
    /\ phase' = "export: saved"
    /\ UNCHANGED <<exportTimer, windowHtml2pdf, exportContainer, alerts, exports>>
    /\ ExportFrame

\* the exporter throws
SaveRejects ==
    /\ saving
    /\ alerts' = Append(alerts, ExportFailedNotice)
    /\ ExportingClassRemoved
    /\ DownloadDone
    /\ phase' = "export: threw"
    /\ UNCHANGED <<exportTimer, windowHtml2pdf, exportContainer, exports>>
    /\ ExportFrame

\* the script of the export library has loaded
Html2pdfLoads ==
    /\ ~windowHtml2pdf
    /\ windowHtml2pdf' = TRUE
    /\ phase' = "library loaded"
    /\ UNCHANGED <<isGeneratingPdf, exportTimer, saving, exportingClass, exportContainer,
                   alerts, exports>>
    /\ ExportFrame

\* the preview with the export container is rendered
ContainerRendered ==
    /\ ~exportContainer
    /\ exportContainer' = TRUE
    /\ phase' = "container rendered"
    /\ UNCHANGED <<isGeneratingPdf, exportTimer, saving, exportingClass, windowHtml2pdf,
                   alerts, exports>>
    /\ ExportFrame

ExportNext ==
    \/ HandleDownload
    \/ DownloadWithoutContainer
    \/ DownloadWithoutLibrary
    \/ DownloadStarts
    \/ DownloadThrowsAtOnce
    \/ SaveResolves
    \/ SaveRejects
    \/ Html2pdfLoads
    \/ ContainerRendered

SpecExport == ExportInit /\ [][ExportNext]_vars

----------------------------------------------------------------------------
(* The AI actions: App.tsx, handleAiAction, lines 77-100, and              *)
(* geminiService.ts.  The answer of the text-generation service is an      *)
(* input: a text (possibly empty) or a failure.                            *)

AiActions == {"grammar", "professional", "summarize", "toc"}

AiFailedNotice == "AI enhancement failed. Please check console."

\* the texts the editor holds when an AI action is asked for
AiTexts == {<<>>, <<" ">>, <<"x">>}

\* response.text of an answer of the service
ResponseTexts == {<<>>, <<"R">>}

\* breakMarker of insertPageBreak
BreakMarker ==
    <<"\n", "\n", "<", "d", "i", "v", " ", "c", "l", "a", "s", "s", "=", "\"", "p", "a",
      "g", "e", "-", "b", "r", "e", "a", "k", "\"", ">", "<", "/", "d", "i", "v", ">",
      "\n", "\n">>

\* the service has answered with the text responseText
Answer(responseText) == [ok |-> TRUE, text |-> responseText]

\* the call of the service has thrown
Failure == [ok |-> FALSE, text |-> <<>>]

\* enhanceMarkdown when the service answers: return response.text || text
\* (when the service fails it throws: see EnhanceFails)
enhanceMarkdown(text, outcome) ==
    IF outcome.text # <<>> THEN outcome.text ELSE text

\* generateTableOfContents: return response.text || "", and return "" in the
\* catch
generateTableOfContents(text, outcome) ==
    IF outcome.ok
    THEN IF outcome.text # <<>> THEN outcome.text ELSE <<>>
    ELSE <<>>

\* newText of handleAiAction
NewText(action, text, outcome) ==
    IF action = "toc"
    THEN generateTableOfContents(text, outcome) \o <<"\n", "\n">> \o text
    ELSE enhanceMarkdown(text, outcome)

\* what an AI action or an edit leaves alone: the preview, the export
AiFrame ==
    /\ UNCHANGED <<docConfig, content, view, today>>
    /\ UNCHANGED paginationVars
    /\ UNCHANGED imageVars
    /\ UNCHANGED effectVars
    /\ UNCHANGED exportVars

\* setMarkdown(newText), then the finally: setIsEnhancing(false)
Settled(newText) ==
    /\ markdown' = newText
    /\ isEnhancing' = FALSE
    /\ aiCall' = NoCall

AiInit ==
    /\ FixedDay
    /\ Mounted
    /\ NoEffect
    /\ NoImage
    /\ markdown \in AiTexts
    /\ phase = "mounted"
    /\ isEnhancing = FALSE
    /\ aiCall = NoCall
    /\ aiActions = 0
    /\ edits = 0
    /\ alerts = <<>>
    /\ isGeneratingPdf = FALSE
    /\ exportTimer = FALSE
    /\ saving = FALSE
    /\ exportingClass = FALSE
    /\ windowHtml2pdf = TRUE
    /\ exportContainer = TRUE
    /\ exports = 0

\* handleAiAction up to the call of the service; the AI menu is disabled
\* while isEnhancing
HandleAiAction ==
    \E action \in AiActions :
        /\ ~isEnhancing
        /\ aiActions < MaxAiActions
        /\ action = "toc" \/ Trim(markdown) # <<>>
        /\ isEnhancing' = TRUE
        /\ aiCall' = [pending |-> TRUE, action |-> action, text |-> markdown]
        /\ aiActions' = aiActions + 1
        /\ phase' = "ai: asked"
        /\ UNCHANGED <<markdown, alerts, edits>>
        /\ AiFrame

\* handleAiAction on a blank text: enhanceMarkdown returns "" without a call
\* of the service
HandleAiActionOnBlank ==
    \E action \in AiActions \ {"toc"} :
        /\ ~isEnhancing
        /\ aiActions < MaxAiActions
        /\ Trim(markdown) = <<>>
        /\ markdown' = <<>>
        /\ aiActions' = aiActions + 1
        /\ phase' = "ai: blank"
        /\ UNCHANGED <<isEnhancing, aiCall, alerts, edits>>
        /\ AiFrame

\* the service answers: handleAiAction goes on after its await
ServiceAnswers ==
    \E responseText \in ResponseTexts :
        /\ aiCall.pending
        /\ Settled(NewText(aiCall.action, aiCall.text, Answer(responseText)))
        /\ phase' = "ai: answered"
        /\ UNCHANGED <<alerts, aiActions, edits>>
        /\ AiFrame

\* the service fails under enhanceMarkdown, which throws: the catch of
\* handleAiAction alerts
EnhanceFails ==
    /\ aiCall.pending
    /\ aiCall.action # "toc"
    /\ alerts' = Append(alerts, AiFailedNotice)
    /\ isEnhancing' = FALSE
    /\ aiCall' = NoCall
    /\ phase' = "ai: failed"
    /\ UNCHANGED <<markdown, aiActions, edits>>
    /\ AiFrame

\* the service fails under generateTableOfContents, which returns ""
TocFails ==
    /\ aiCall.pending
    /\ aiCall.action = "toc"
    /\ Settled(NewText(aiCall.action, aiCall.text, Failure))
    /\ phase' = "ai: failed"
    /\ UNCHANGED <<alerts, aiActions, edits>>
    /\ AiFrame

\* the user types a character at the end of the text: onChange of the textarea
UserTypes ==
    /\ edits < MaxEdits
    /\ markdown' = markdown \o <<"y">>
    /\ edits' = edits + 1
    /\ phase' = "edited"
    /\ UNCHANGED <<isEnhancing, aiCall, alerts, aiActions>>
    /\ AiFrame

\* the Clear button
UserClears ==
    /\ edits < MaxEdits
    /\ markdown' = <<>>
    /\ edits' = edits + 1
    /\ phase' = "edited"
    /\ UNCHANGED <<isEnhancing, aiCall, alerts, aiActions>>
    /\ AiFrame

\* insertPageBreak with the cursor at the start or at the end of the text
InsertPageBreak ==
    \E start \in {0, Len(markdown)} :
        /\ edits < MaxEdits
        /\ markdown' = SubSeq(markdown, 1, start) \o BreakMarker
                           \o SubSeq(markdown, start + 1, Len(markdown))
        /\ edits' = edits + 1
        /\ phase' = "edited"
        /\ UNCHANGED <<isEnhancing, aiCall, alerts, aiActions>>
        /\ AiFrame

AiNext ==
    \/ HandleAiAction
    \/ HandleAiActionOnBlank
    \/ ServiceAnswers
    \/ EnhanceFails
    \/ TocFails
    \/ UserTypes
    \/ UserClears
    \/ InsertPageBreak

SpecAi == AiInit /\ [][AiNext]_vars

----------------------------------------------------------------------------
(* Reading a page list back against the container it was computed from *)

\* the container's content blocks (no page-break markers), in source order
Blocks == SelectSeq(measureContainer, LAMBDA ch : ~IsPageBreak(ch))

RECURSIVE SumOffsetHeights(_)
\* summed measured height of a sequence of children
SumOffsetHeights(cs) ==
    IF cs = <<>> THEN 0 ELSE Head(cs).offsetHeight + SumOffsetHeights(Tail(cs))

\* whether the container holds at least one content block
HasBlock == Len(Blocks) > 0

\* the measured height of the child whose markup is html (0 for the empty string)
HeightOf(html) ==
    IF html = <<>> THEN 0 ELSE measureContainer[html[1]].offsetHeight

RECURSIVE SumHeights(_)
SumHeights(page) ==
    IF page = <<>> THEN 0 ELSE HeightOf(Head(page)) + SumHeights(Tail(page))

\* the page (index into pages) that holds the block at container position i
PageOf(i) == CHOOSE p \in 1..Len(pages) : \E k \in 1..Len(pages[p]) : pages[p][k] = <<i>>

\* the position on its page of the block at container position i
SlotOf(i) == CHOOSE k \in 1..Len(pages[PageOf(i)]) : pages[PageOf(i)][k] = <<i>>

\* summed height of the blocks of i's page up to and including block i
HeightUpTo(i) == SumHeights(SubSeq(pages[PageOf(i)], 1, SlotOf(i)))

\* positions of the container's content blocks
BlockPositions == {i \in 1..Len(measureContainer) : ~IsPageBreak(measureContainer[i])}

\* b and c are consecutive content blocks: only markers lie between them
Consecutive(b, c) ==
    /\ b \in BlockPositions /\ c \in BlockPositions /\ b < c
    /\ \A m \in (b + 1)..(c - 1) : IsPageBreak(measureContainer[m])

Paginated == phase = "paginated"

----------------------------------------------------------------------------
(* C1: a page with two or more blocks totals at most MAX_PAGE_HEIGHT; a    *)
(* page totals more than MAX_PAGE_HEIGHT only when it holds exactly one    *)
(* block and that block alone is higher than MAX_PAGE_HEIGHT.              *)
C1_PageHeightBound ==
    Paginated =>
        \A p \in 1..Len(pages) :
            /\ Len(pages[p]) >= 2 => SumHeights(pages[p]) <= MAX_PAGE_HEIGHT
            /\ SumHeights(pages[p]) > MAX_PAGE_HEIGHT =>
                   /\ Len(pages[p]) = 1
                   /\ HeightOf(pages[p][1]) > MAX_PAGE_HEIGHT

\* a pass that filled one page exactly to the limit with two blocks and put an
\* oversized block on another page
C1_Witness ==
    /\ Paginated
    /\ \E p \in 1..Len(pages) :
           Len(pages[p]) = 2 /\ SumHeights(pages[p]) = MAX_PAGE_HEIGHT
    /\ \E p \in 1..Len(pages) : SumHeights(pages[p]) > MAX_PAGE_HEIGHT

(* C2: the pages, concatenated in page order, are exactly the container's  *)
(* content blocks in source order: nothing dropped, duplicated, reordered, *)
(* and no marker's markup on any page.                                     *)
C2_ContentPreserved ==
    Paginated =>
        /\ Concat(Flatten(pages)) = Concat([i \in 1..Len(Blocks) |-> Blocks[i].outerHTML])
        /\ HasBlock => Flatten(pages) = [i \in 1..Len(Blocks) |-> Blocks[i].outerHTML]
        /\ \A i \in 1..Len(measureContainer) :
               IsPageBreak(measureContainer[i]) =>
                   \A p \in 1..Len(pages) : \A k \in 1..Len(pages[p]) :
                       pages[p][k] # measureContainer[i].outerHTML

\* a pass over two blocks with a marker between them: two pages
C2_Witness ==
    /\ Paginated
    /\ Len(Blocks) = 2 /\ Len(measureContainer) = 3
    /\ IsPageBreak(measureContainer[2])
    /\ Len(pages) = 2

(* C3: every block higher than MAX_PAGE_HEIGHT is alone on its page,       *)
(* whatever its neighbours are; the pass completes for every container.    *)
C3_OversizedAlone ==
    Paginated =>
        \A i \in BlockPositions :
            measureContainer[i].offsetHeight > MAX_PAGE_HEIGHT =>
                \E p \in 1..Len(pages) : pages[p] = <<measureContainer[i].outerHTML>>

\* an oversized block between two zero-height blocks, each on its own page
C3_Witness ==
    /\ Paginated
    /\ Len(measureContainer) = 3
    /\ measureContainer[1].cls = "" /\ measureContainer[1].offsetHeight = 0
    /\ measureContainer[2].cls = "" /\ measureContainer[2].offsetHeight > MAX_PAGE_HEIGHT
    /\ measureContainer[3].cls = "" /\ measureContainer[3].offsetHeight = 0
    /\ pages = << <<measureContainer[1].outerHTML>>,
                  <<measureContainer[2].outerHTML>>,
                  <<measureContainer[3].outerHTML>> >>

(* C4: greedy forward fill.  For consecutive content blocks b, c: c starts *)
(* a new page iff a marker lies between them or the height of b's page up  *)
(* to b plus c's height exceeds MAX_PAGE_HEIGHT; otherwise c follows b on  *)
(* b's page.  A marker-free container whose heights sum to at most         *)
(* MAX_PAGE_HEIGHT gives one page with all blocks; heights 400,400,400     *)
(* give [[b1,b2],[b3]].                                                    *)
C4_GreedyBoundaries ==
    Paginated =>
        /\ \A b, c \in BlockPositions :
               Consecutive(b, c) =>
                   LET forced == c > b + 1
                       over == HeightUpTo(b) + measureContainer[c].offsetHeight
                                   > MAX_PAGE_HEIGHT
                   IN  IF forced \/ over
                       THEN PageOf(c) = PageOf(b) + 1 /\ SlotOf(c) = 1
                                /\ SlotOf(b) = Len(pages[PageOf(b)])
                       ELSE PageOf(c) = PageOf(b) /\ SlotOf(c) = SlotOf(b) + 1
        /\ (HasBlock /\ Len(Blocks) = Len(measureContainer)
                /\ SumOffsetHeights(Blocks) <= MAX_PAGE_HEIGHT)
               => pages = << [i \in 1..Len(Blocks) |-> Blocks[i].outerHTML] >>
        /\ (Len(measureContainer) = 3
                /\ \A i \in 1..3 : measureContainer[i].cls = ""
                                       /\ measureContainer[i].offsetHeight = 400)
               => pages = << << <<1>>, <<2>> >>, << <<3>> >> >>

\* the 400,400,400 example has been paginated
C4_Witness ==
    /\ Paginated
    /\ Len(measureContainer) = 3
    /\ \A i \in 1..3 : measureContainer[i].cls = "" /\ measureContainer[i].offsetHeight = 400
    /\ Len(pages) = 2

(* C5: no page is without content; leading, trailing and repeated markers  *)
(* make no page; only a container without any content block gives exactly  *)
(* one page, and that page's content is empty.                             *)
C5_NoEmptyPage ==
    Paginated =>
        IF HasBlock
        THEN \A p \in 1..Len(pages) :
                 Len(pages[p]) > 0 /\ \A k \in 1..Len(pages[p]) : pages[p][k] # <<>>
        ELSE Len(pages) = 1 /\ Concat(pages[1]) = <<>>

\* a marker before and a marker after the only block: one page, holding the block
C5_Witness ==
    /\ Paginated
    /\ Len(measureContainer) = 3
    /\ IsPageBreak(measureContainer[1])
    /\ IsPageBreak(measureContainer[3])
    /\ HasBlock
    /\ pages = << <<measureContainer[2].outerHTML>> >>

\* a container holding only markers: the single page with empty content
C5_WitnessOnlyMarkers ==
    /\ Paginated
    /\ Len(measureContainer) = 2
    /\ ~HasBlock
    /\ pages = << << <<>> >> >>

----------------------------------------------------------------------------
(* Reading a parse back against the lines of the document text *)

\* the lines of a text
LinesOf(text) == Split(text, "\n")

\* the lines from line `from` on that are exactly --- and are followed by a
\* line terminator
ClosingLines(lines, from) ==
    {c \in from..(Len(lines) - 1) : lines[c] = DelimLine}

\* the first of them
FirstClosing(lines, from) ==
    CHOOSE c \in ClosingLines(lines, from) : \A d \in ClosingLines(lines, from) : c <= d

\* the text after line c and its terminator
TextAfterLine(lines, c) == Join(SubSeq(lines, c + 1, Len(lines)), "\n")

\* the parse has run
Parsed == phase \in {"parsed", "rendered"}

\* a frontmatter block is detected exactly when line 1 is --- and a closing ---
\* line lies at line `from` or later; the body is the text after the first such
\* line; otherwise the config is empty and the body is the text
DetectionRule(from) ==
    LET lines == LinesOf(markdown)
    IN  IF lines[1] = DelimLine /\ ClosingLines(lines, from) # {}
        THEN content = TextAfterLine(lines, FirstClosing(lines, from))
        ELSE docConfig = EmptyConfig /\ content = markdown

\* the lines inside the detected block (none when no block is detected)
BlockLinesOf(lines) ==
    IF lines[1] = DelimLine /\ ClosingLines(lines, 3) # {}
    THEN SubSeq(lines, 2, FirstClosing(lines, 3) - 1)
    ELSE <<>>

BlockLines == BlockLinesOf(LinesOf(markdown))

HasColon(line) == IndexOfChar(line, ":") > 0

\* the trimmed text before the first colon of a line
KeyOf(line) == Trim(SubSeq(line, 1, IndexOfChar(line, ":") - 1))

\* the trimmed text after the first colon of a line
ValueOf(line) == Trim(SubSeq(line, IndexOfChar(line, ":") + 1, Len(line)))

\* the lines of a block that contain a colon
ColonLinesOf(block) == {i \in 1..Len(block) : HasColon(block[i])}

\* the last line of a block with the same key as line i
LastWithKey(block, i) ==
    CHOOSE l \in ColonLinesOf(block) :
        /\ KeyOf(block[l]) = KeyOf(block[i])
        /\ \A m \in ColonLinesOf(block) : KeyOf(block[m]) = KeyOf(block[i]) => m <= l

(* C7, as amended: a frontmatter block is detected exactly when the text   *)
(* begins with a line that is exactly ---, followed by one or more lines   *)
(* (an empty line, or a --- line, included), followed by a line that is    *)
(* exactly --- and a line terminator: the closing line is the first ---    *)
(* line at line 3 or later.  The body is everything after the closing      *)
(* line; otherwise the config is empty and the body is the raw text.       *)
C7_DetectedFromThirdLine == Parsed => DetectionRule(3)

(* C7, as claimed: zero lines between the delimiters are enough, so the    *)
(* closing line is the first --- line at line 2 or later.                  *)
C7_DetectedFromSecondLine == Parsed => DetectionRule(2)

\* a text with a block, a second --- line after the closing one and a body
C7_Witness ==
    /\ Parsed
    /\ Cardinality(ClosingLines(LinesOf(markdown), 3)) = 2
    /\ LinesOf(markdown)[1] = DelimLine
    /\ docConfig # EmptyConfig
    /\ content # <<>>
    /\ content # markdown

(* C8, as amended: inside a detected block every line containing a colon   *)
(* yields a config entry under the trimmed text before its first colon,    *)
(* with the trimmed text after the first colon as value (later colons      *)
(* kept); of several lines with the same key the last one's value is kept, *)
(* and a line whose key is __proto__ yields no entry.  Lines without a     *)
(* colon yield no entry; any other key is kept.                            *)
C8_EntriesLastWins ==
    Parsed =>
        LET block == BlockLines
            colons == ColonLinesOf(block)
        IN  /\ DOMAIN docConfig = {KeyOf(block[i]) : i \in colons} \ {ProtoKey}
            /\ \A i \in colons :
                   KeyOf(block[i]) # ProtoKey =>
                       docConfig[KeyOf(block[i])] = ValueOf(block[LastWithKey(block, i)])

(* C8, as claimed: every line containing a colon yields an entry with that *)
(* line's key and that line's value; lines without a colon yield none.     *)
C8_EntryPerColonLine ==
    Parsed =>
        LET block == BlockLines
            colons == ColonLinesOf(block)
        IN  /\ DOMAIN docConfig = {KeyOf(block[i]) : i \in colons}
            /\ \A i \in colons :
                   /\ KeyOf(block[i]) \in DOMAIN docConfig
                   /\ docConfig[KeyOf(block[i])] = ValueOf(block[i])

\* a block whose two colon lines give two entries, one value holding a colon
C8_Witness ==
    /\ Parsed
    /\ Len(BlockLines) = 2
    /\ DOMAIN docConfig = {<<"k">>, <<"j">>}
    /\ docConfig[<<"k">>] = <<"v", ":", "w">>
    /\ docConfig[<<"j">>] = <<"v">>

\* a block with a colon line and a line without a colon: one entry
C8_WitnessIgnoredLine ==
    /\ Parsed
    /\ Len(BlockLines) = 2
    /\ Cardinality(ColonLinesOf(BlockLines)) = 1
    /\ Cardinality(DOMAIN docConfig) = 1

Rendered == phase = "rendered"

----------------------------------------------------------------------------
(* Reading a rendered image back against its URL *)

\* the URL the call carries, when it carries one
CallHref ==
    IF imageCall.tokenOrHref.type = "object"
    THEN imageCall.tokenOrHref.href.str
    ELSE imageCall.tokenOrHref.str

\* whether the call carries a URL string
CallHasHref ==
    IF imageCall.tokenOrHref.type = "object"
    THEN imageCall.tokenOrHref.href.type = "string"
    ELSE imageCall.tokenOrHref.type = "string"

\* the URL up to its first '#', or all of it
BeforeFirstHash(href) ==
    IF IndexOfChar(href, "#") = 0 THEN href
    ELSE SubSeq(href, 1, IndexOfChar(href, "#") - 1)

\* the URL after its first '#', empty when there is none
AfterFirstHash(href) ==
    IF IndexOfChar(href, "#") = 0 THEN <<>>
    ELSE SubSeq(href, IndexOfChar(href, "#") + 1, Len(href))

\* the directives and their classes
DirectiveClasses ==
    { <<DirectiveLeft, "align-left">>,
      <<DirectiveRight, "align-right">>,
      <<DirectiveCenter, "align-center">>,
      <<DirectiveFull, "align-full">>,
      <<DirectiveFloatLeft, "float-left">>,
      <<DirectiveFloatRight, "float-right">>,
      <<DirectiveHalf, "width-half">>,
      <<DirectiveThird, "width-third">> }

\* the class of a directive: the listed class when the directive, compared
\* case-insensitively, is exactly a listed one, and no class otherwise
ClassOfDirective(directive) ==
    IF \E dc \in DirectiveClasses : dc[1] = ToLowerCase(directive)
    THEN (CHOOSE dc \in DirectiveClasses : dc[1] = ToLowerCase(directive))[2]
    ELSE ""

ImageRendered == phase = "image rendered" /\ CallHasHref

(* C9, as amended: the image source is the part of the URL before the      *)
(* first '#'; the layout directive is the part between the first '#' and   *)
(* the second '#' (or the end of the URL), compared case-insensitively.  A *)
(* class is emitted only when the directive is exactly one of the eight    *)
(* listed; so 'left#x' has directive 'left' and yields align-left, and a   *)
(* missing or any other directive yields no class.                         *)
C9_DirectiveUpToSecondHash ==
    ImageRendered =>
        /\ imageHtml.src = BeforeFirstHash(CallHref)
        /\ imageHtml.class = ClassOfDirective(BeforeFirstHash(AfterFirstHash(CallHref)))

(* C9, as claimed: the layout directive is the whole part after the first  *)
(* '#', so a directive such as 'left#x' yields no class.                   *)
C9_DirectiveWholeRest ==
    ImageRendered =>
        /\ imageHtml.src = BeforeFirstHash(CallHref)
        /\ imageHtml.class = ClassOfDirective(AfterFirstHash(CallHref))

\* the URL a#HALF: source a, class width-half
C9_Witness ==
    /\ ImageRendered
    /\ CallHref = <<"a", "#", "H", "A", "L", "F">>
    /\ imageHtml.src = <<"a">>
    /\ imageHtml.class = "width-half"

\* the URL a#lef#left: no class
C9_WitnessNoClass ==
    /\ ImageRendered
    /\ CallHref = <<"a", "#", "l", "e", "f", "#", "l", "e", "f", "t">>
    /\ imageHtml.class = ""

(* C10, as amended: the header is shown iff config.header is present and   *)
(* non-empty, or config.date is present, non-empty and not the literal     *)
(* string "false".                                                         *)
C10_HeaderShownNonEmptyDate ==
    Rendered =>
        (view.showHeader <=>
            \/ (HeaderKey \in DOMAIN docConfig /\ docConfig[HeaderKey] # <<>>)
            \/ (DateKey \in DOMAIN docConfig /\ docConfig[DateKey] # <<>>
                    /\ docConfig[DateKey] # FalseLiteral))

(* C10, as claimed: the header is shown iff config.header is present and   *)
(* non-empty, or config.date is present with any value, the empty string   *)
(* included, other than the literal string "false".                        *)
C10_HeaderShownAnyDate ==
    Rendered =>
        (view.showHeader <=>
            \/ (HeaderKey \in DOMAIN docConfig /\ docConfig[HeaderKey] # <<>>)
            \/ (DateKey \in DOMAIN docConfig /\ docConfig[DateKey] # FalseLiteral))

\* no header text, a date other than "false": the header is shown
C10_Witness ==
    /\ Rendered
    /\ HeaderKey \in DOMAIN docConfig /\ docConfig[HeaderKey] = <<>>
    /\ DateKey \in DOMAIN docConfig /\ docConfig[DateKey] = <<"d">>
    /\ view.showHeader

\* a header text and the date "false": the header is shown
C10_WitnessHeaderOnly ==
    /\ Rendered
    /\ HeaderKey \in DOMAIN docConfig /\ docConfig[HeaderKey] = <<"h">>
    /\ DateKey \in DOMAIN docConfig /\ docConfig[DateKey] = FalseLiteral
    /\ view.showHeader

----------------------------------------------------------------------------
(* Reading the date and the background back against the config *)

\* config[key] when the key is present, the empty string otherwise
ValueAt(key) == IF key \in DOMAIN docConfig THEN docConfig[key] ELSE <<>>

\* whether str is the calendar day d written YYYY-MM-DD, month and day on two
\* digits (d.month counts from 0, as getMonth() does)
IsCalendarDate(str, d) ==
    str = << DigitChars[((d.year \div 1000) % 10) + 1],
             DigitChars[((d.year \div 100) % 10) + 1],
             DigitChars[((d.year \div 10) % 10) + 1],
             DigitChars[(d.year % 10) + 1],
             "-",
             DigitChars[((d.month + 1) \div 10) + 1],
             DigitChars[((d.month + 1) % 10) + 1],
             "-",
             DigitChars[(d.date \div 10) + 1],
             DigitChars[(d.date % 10) + 1] >>

\* whether s ends with suffix
EndsWith(s, suffix) ==
    Len(s) >= Len(suffix) /\ SubSeq(s, Len(s) - Len(suffix) + 1, Len(s)) = suffix

\* whether s ends with one of the CSS angle units
HasUnitSuffix(s) ==
    \E unit \in {DegLiteral, <<"r", "a", "d">>, <<"t", "u", "r", "n">>,
                 <<"g", "r", "a", "d">>} : EndsWith(s, unit)

\* whether the text deg stands somewhere in s
ContainsDeg(s) == \E i \in 1..Len(s) : i + 2 <= Len(s) /\ SubSeq(s, i, i + 2) = DegLiteral

(* C11, as amended: the literal "false" yields no date; a present,          *)
(* non-empty value other than "true" and "false" is the date text verbatim; *)
(* an absent value, the empty string or the literal "true" yields the       *)
(* current calendar date written YYYY-MM-DD with month and day zero-padded. *)
C11_DateTextNonEmptyVerbatim ==
    Rendered =>
        LET present == DateKey \in DOMAIN docConfig
            date == ValueAt(DateKey)
        IN  IF present /\ date = FalseLiteral THEN ~view.dateText.defined
            ELSE IF present /\ date # <<>> /\ date # TrueLiteral
                 THEN view.dateText.defined /\ view.dateText.str = date
            ELSE view.dateText.defined /\ IsCalendarDate(view.dateText.str, today)

(* C11, as claimed: the literal "false" yields no date; any present value   *)
(* other than "true" and "false", the empty string included, is the date    *)
(* text verbatim; an absent value or the literal "true" yields the current  *)
(* calendar date written YYYY-MM-DD with month and day zero-padded.         *)
C11_DateTextAnyVerbatim ==
    Rendered =>
        LET present == DateKey \in DOMAIN docConfig
            date == ValueAt(DateKey)
        IN  IF present /\ date = FalseLiteral THEN ~view.dateText.defined
            ELSE IF present /\ date # TrueLiteral
                 THEN view.dateText.defined /\ view.dateText.str = date
            ELSE view.dateText.defined /\ IsCalendarDate(view.dateText.str, today)

\* no date in the config, on 4 September 2026: the date text is 2026-09-04
C11_Witness ==
    /\ Rendered
    /\ DateKey \notin DOMAIN docConfig
    /\ today = [year |-> 2026, month |-> 8, date |-> 4]
    /\ view.dateText.defined
    /\ view.dateText.str = <<"2", "0", "2", "6", "-", "0", "9", "-", "0", "4">>

\* the date d: the date text is d
C11_WitnessVerbatim ==
    /\ Rendered
    /\ DateKey \in DOMAIN docConfig /\ docConfig[DateKey] = <<"d">>
    /\ view.dateText.defined
    /\ view.dateText.str = <<"d">>

\* the empty date, on 31 December 2026: the date text is 2026-12-31
C11_WitnessEmptyDate ==
    /\ Rendered
    /\ DateKey \in DOMAIN docConfig /\ docConfig[DateKey] = <<>>
    /\ today = [year |-> 2026, month |-> 11, date |-> 31]
    /\ view.dateText.defined
    /\ view.dateText.str = <<"2", "0", "2", "6", "-", "1", "2", "-", "3", "1">>

(* C12: the background opacity is the number parsed from                    *)
(* config['bg-opacity'], it is 1 when the key is absent or its value cannot *)
(* be parsed as a number, and it is never NaN.                              *)
C12_OpacityNeverNaN ==
    Rendered =>
        LET present == BgOpacityKey \in DOMAIN docConfig
            parsed == parseFloat(ValueAt(BgOpacityKey))
        IN  /\ view.bgOpacity.kind # "NaN"
            /\ (~present \/ parsed.kind = "NaN") => view.bgOpacity = One
            /\ (present /\ parsed.kind # "NaN") => view.bgOpacity = parsed

(* C13, as amended: the rotation is the config['bg-rotate'] value as it is  *)
(* when the value contains the text deg, the value with deg appended in     *)
(* every other case (a value ending in rad, turn or grad included), and     *)
(* 0deg when the key is absent or its value is empty.                       *)
C13_RotationKeptWhenDeg ==
    Rendered =>
        LET rotate == ValueAt(BgRotateKey)
        IN  IF rotate = <<>> THEN view.rotationVal = <<"0", "d", "e", "g">>
            ELSE IF ContainsDeg(rotate) THEN view.rotationVal = rotate
            ELSE view.rotationVal = rotate \o DegLiteral

(* C13, as claimed: the rotation is the config['bg-rotate'] value as it is  *)
(* when the value ends with a unit (deg, rad, turn or grad), the value with *)
(* deg appended when it carries no unit, and 0deg when the key is absent or *)
(* its value is empty.                                                      *)
C13_RotationKeptWhenUnit ==
    Rendered =>
        LET rotate == ValueAt(BgRotateKey)
        IN  IF rotate = <<>> THEN view.rotationVal = <<"0", "d", "e", "g">>
            ELSE IF HasUnitSuffix(rotate) THEN view.rotationVal = rotate
            ELSE view.rotationVal = rotate \o DegLiteral

\* the rotation 45: 45deg
C13_Witness ==
    /\ Rendered
    /\ BgRotateKey \in DOMAIN docConfig /\ docConfig[BgRotateKey] = <<"4", "5">>
    /\ view.rotationVal = <<"4", "5", "d", "e", "g">>

\* the rotation 45deg: kept as it is
C13_WitnessDeg ==
    /\ Rendered
    /\ BgRotateKey \in DOMAIN docConfig /\ docConfig[BgRotateKey] = <<"4", "5", "d", "e", "g">>
    /\ view.rotationVal = <<"4", "5", "d", "e", "g">>

\* the rotation 1rad: 1raddeg
C13_WitnessRad ==
    /\ Rendered
    /\ BgRotateKey \in DOMAIN docConfig /\ docConfig[BgRotateKey] = <<"1", "r", "a", "d">>
    /\ view.rotationVal = <<"1", "r", "a", "d", "d", "e", "g">>

\* an empty rotation: 0deg
C13_WitnessEmpty ==
    /\ Rendered
    /\ BgRotateKey \in DOMAIN docConfig /\ docConfig[BgRotateKey] = <<>>
    /\ view.rotationVal = <<"0", "d", "e", "g">>

----------------------------------------------------------------------------
(* Reading the runs of the pagination effect *)

\* the props have changed in this step
PropsChanged == <<markdown, font>>' # <<markdown, font>>

\* paginate has been called in this step
PaginateCalled == runs'.count # runs.count

\* the environment paginate needs is there
EnvironmentAvailable == windowMarked /\ measureRefCurrent

\* no timer is armed and no call is suspended
Quiescent == timer = {} /\ awaiting = <<>>

\* the pages of the document text under the font f
PagesOf(text, f) == paginate(Measured(parseFrontmatter(text).content, f))

\* the sequence without its element i
Without(seq, i) == SubSeq(seq, 1, i - 1) \o SubSeq(seq, i + 1, Len(seq))

(* C14: every change of the props leaves exactly the timer it has armed, on *)
(* the new text (the timer of the change before is cancelled), so at most    *)
(* one timer is armed at any moment; a call of paginate is the firing of the *)
(* one armed timer, it runs on the text and the font of the last change and  *)
(* leaves no timer behind; and an armed timer leads to such a call.          *)
C14_Debounced ==
    /\ [](Cardinality(timer) <= 1)
    /\ [][PropsChanged => timer' = {[markdown |-> markdown']}]_vars
    /\ [][PaginateCalled =>
            /\ runs'.count = runs.count + 1
            /\ timer = {[markdown |-> markdown]}
            /\ timer' = {}
            /\ runs'.last = [taken |-> TRUE, markdown |-> markdown, font |-> font]
            /\ ~PropsChanged]_vars
    /\ (timer # {}) ~>
            (timer = {} /\ runs.last = [taken |-> TRUE, markdown |-> markdown, font |-> font])

\* a burst of two changes after the mount, then the one call of paginate
C14_Witness ==
    /\ changes = 2
    /\ runs.count = 1
    /\ timer = {}
    /\ runs.last = [taken |-> TRUE, markdown |-> markdown, font |-> font]

(* C15: a call of paginate without the renderer or without the measuring    *)
(* container changes neither the pages nor the config nor what is           *)
(* suspended; and while no timer is armed and no call is suspended, the     *)
(* pages and the config stay as they are.                                   *)
C15_SkippedLeavesAll ==
    /\ [][(PaginateCalled /\ ~EnvironmentAvailable) =>
            /\ pages' = pages
            /\ docConfig' = docConfig
            /\ view' = view
            /\ measureContainer' = measureContainer
            /\ awaiting' = awaiting
            /\ timer' = {}]_vars
    /\ [][Quiescent => (pages' = pages /\ docConfig' = docConfig)]_vars

\* the only call so far was skipped: a document with a header is in the
\* editor, no page and no config are there, the renderer has loaded since
C15_Witness ==
    /\ runs.count = 1
    /\ ~runs.started.taken
    /\ Quiescent
    /\ windowMarked /\ measureRefCurrent
    /\ HeaderKey \in DOMAIN parseFrontmatter(markdown).config
    /\ pages = <<>>
    /\ docConfig = EmptyConfig

\* a skipped call, then a change and a call with the environment there
C15_WitnessLaterChange ==
    /\ runs.count = 2
    /\ changes = 1
    /\ runs.started.taken
    /\ Quiescent
    /\ pages = PagesOf(markdown, font)

(* C18: a change of the props leaves every suspended call suspended; a      *)
(* suspended call that goes on, whichever it is, writes the pages of its    *)
(* own content, whatever calls have started or finished since.              *)
C18_StaleWriteUnguarded ==
    /\ [][PropsChanged => awaiting' = awaiting]_vars
    /\ [][Len(awaiting') < Len(awaiting) =>
            \E i \in DOMAIN awaiting :
                /\ awaiting' = Without(awaiting, i)
                /\ pages' = paginate(Measured(awaiting[i].content, font))]_vars

\* nothing is armed or suspended, the last call started on the text in the
\* editor, and the pages are those of another text and not those of this one
C18_Witness ==
    /\ Quiescent
    /\ runs.started.taken
    /\ runs.started.markdown = markdown
    /\ pages # PagesOf(markdown, font)
    /\ \E text \in EffectTexts : text # markdown /\ pages = PagesOf(text, font)

(* C19: whenever no timer is armed and no call is suspended, the config and *)
(* the pages are those of the text of the last call of paginate that        *)
(* started.                                                                 *)
C19_ConfigAndPagesOfSameText ==
    (Quiescent /\ runs.started.taken) =>
        /\ docConfig = parseFrontmatter(runs.started.markdown).config
        /\ pages = PagesOf(runs.started.markdown, font)

----------------------------------------------------------------------------
(* Reading the exports *)

\* an export is under way: its timeout is armed or downloadPDF awaits the exporter
ExportUnderWay == exportTimer \/ saving

\* an export reaches one of its exits in this step
ExportEnds == ExportUnderWay /\ ~ExportUnderWay'

(* C16: an export that reaches an exit, whichever (saved, the exporter      *)
(* threw, no library, no container), leaves the export container without    *)
(* the class exporting-pdf and isGeneratingPdf false; when the exporter     *)
(* threw, a failure notice is shown in that step; and while no export is    *)
(* under way neither the class nor the flag is set.                         *)
C16_ExportAlwaysReverted ==
    /\ [][ExportEnds => (~exportingClass' /\ ~isGeneratingPdf')]_vars
    /\ [][(ExportEnds /\ phase' \in {"export: threw", "export: threw at once"}) =>
            alerts' = Append(alerts, ExportFailedNotice)]_vars
    /\ [](~ExportUnderWay => (~exportingClass /\ ~isGeneratingPdf))

\* the exporter threw while it was awaited: the notice is the last one shown,
\* the class and the flag are gone
C16_Witness ==
    /\ phase = "export: threw"
    /\ alerts # <<>> /\ alerts[Len(alerts)] = ExportFailedNotice
    /\ ~exportingClass
    /\ ~isGeneratingPdf

\* the file was saved: the class and the flag are gone
C16_WitnessSaved ==
    /\ phase = "export: saved"
    /\ ~exportingClass
    /\ ~isGeneratingPdf

\* there was no container: the flag is gone
C16_WitnessNoContainer ==
    /\ phase = "export: no container"
    /\ ~exportingClass
    /\ ~isGeneratingPdf

\* there was no library: the notice is shown, the class and the flag are gone
C16_WitnessNoLibrary ==
    /\ phase = "export: no library"
    /\ alerts # <<>> /\ alerts[Len(alerts)] = LibraryNotLoadedNotice
    /\ ~exportingClass
    /\ ~isGeneratingPdf

----------------------------------------------------------------------------
(* Reading the AI actions *)

\* the AI action in flight ends in this step
AiActionEnds == aiCall.pending /\ ~aiCall'.pending

\* the texts an action can compute from the text it captured alone
ResultsOf(call) ==
    {NewText(call.action, call.text, Answer(r)) : r \in ResponseTexts}

(* C17: when the service fails under an AI action, whichever, a failure     *)
(* notice is shown and the action leaves the markdown buffer as it is.      *)
C17_FailureNoticeAndBufferKept ==
    [][(AiActionEnds /\ phase' = "ai: failed") =>
            /\ alerts' = Append(alerts, AiFailedNotice)
            /\ markdown' = markdown]_vars

(* C20: an AI action that ends after the user has changed the buffer under  *)
(* it does not put a text computed from the captured text alone in the      *)
(* place of the buffer.                                                     *)
C20_EditsInFlightKept ==
    [][(AiActionEnds /\ markdown # aiCall.text) => markdown' \notin ResultsOf(aiCall)]_vars

====
